---- MODULE Spec2Model ----
(***************************************************************************)
(* HiringAnalyticsCrew (hiring_analytics_crew.py): the retried             *)
(* analyze_company call with its cache read and write paths, the task      *)
(* graph of create_tasks, and the result normalizer _parse_results; and    *)
(* the Analyze handler of the page (app.py) that calls it.                 *)
(*                                                                         *)
(* Python strings are sequences of one-character strings, so that `in`,    *)
(* lower(), split, strip, startswith and join are computed as Python       *)
(* computes them.                                                          *)
(***************************************************************************)
EXTENDS Integers, Sequences, FiniteSets, TLC

VARIABLES
    crew_output,     \* _parse_results: the argument, each TaskResult by the text it holds
    task_shapes,     \* _parse_results: for each TaskResult, where its content is held and what kind of value it is
    task_idx,        \* _parse_results: position of the for loop in task_outputs
    research_data,   \* _parse_results: contents appended to the research bucket
    market_data,     \* _parse_results: contents appended to the market bucket
    parse_pc,        \* _parse_results: "idle", "loop", "done", "raised"
    parsed,          \* _parse_results: the returned dict (NoReport before the return)
    origin,          \* "input", or the bucket whose text is being normalized again
    test_mode,       \* self.test_mode
    fallback,        \* TRUE when the import of line 15 failed and Cache is the class of lines 18-43
    cache_store,     \* the payloads of the cache, by key
    cache_meta,      \* the metadata of the cache, by key
    written,         \* by key: what the last Cache.set was given, by which attempt, and what that attempt returned
    now,             \* the time, in seconds
    calls,           \* the calls of analyze_company made so far
    pc,              \* analyze_company: "idle", "attempt", "crew", "write", "raised", "done"
    company_name,    \* analyze_company: the argument
    attempt,         \* the retry decorator: the number of the current attempt
    cache_key,       \* analyze_company: the key of line 186
    tasks,           \* the tasks of the Crew of the current attempt
    task_state,      \* the run of the Crew: "pending", "running", "completed", "failed" by task
    task_output,     \* the run of the Crew: the output of each completed task
    result,          \* analyze_company: what crew.kickoff() returned
    cache_error,     \* analyze_company: the exception bound by line 198 or 222
    raised,          \* the exception the current attempt raised
    rate_limited,    \* the attempts of the current call that ended at the raise of line 233
    outcome          \* what the call gave its caller

parse_vars ==
    <<crew_output, task_shapes, task_idx, research_data, market_data, parse_pc, parsed, origin>>

cache_vars == <<cache_store, cache_meta, written>>

crew_vars == <<tasks, task_state, task_output>>

call_vars ==
    <<pc, company_name, attempt, cache_key, result, cache_error, raised, rate_limited, outcome>>

env_vars == <<test_mode, fallback, now, calls>>

vars == <<parse_vars, cache_vars, crew_vars, call_vars, env_vars>>

----------------------------------------------------------------------------
(* Python string operations                                                *)

SetMin(S) == CHOOSE x \in S : \A y \in S : x <= y

SetMax(S) == CHOOSE x \in S : \A y \in S : x >= y

\* the characters str.strip() removes
WhiteSpace == {" ", "\t", "\n", "\r"}

UpperCase ==
    <<"A", "B", "C", "D", "E", "F", "G", "H", "I", "J", "K", "L", "M",
      "N", "O", "P", "Q", "R", "S", "T", "U", "V", "W", "X", "Y", "Z">>

LowerCase ==
    <<"a", "b", "c", "d", "e", "f", "g", "h", "i", "j", "k", "l", "m",
      "n", "o", "p", "q", "r", "s", "t", "u", "v", "w", "x", "y", "z">>

LowerChar(c) ==
    IF \E i \in DOMAIN UpperCase : UpperCase[i] = c
    THEN LowerCase[CHOOSE i \in DOMAIN UpperCase : UpperCase[i] = c]
    ELSE c

\* s.lower()
Lower(s) == [i \in 1..Len(s) |-> LowerChar(s[i])]

\* pat in s
Contains(s, pat) ==
    \E i \in 1..(Len(s) - Len(pat) + 1) : SubSeq(s, i, i + Len(pat) - 1) = pat

\* s.startswith(pre)
StartsWith(s, pre) == Len(pre) <= Len(s) /\ SubSeq(s, 1, Len(pre)) = pre

\* s.strip()
Strip(s) ==
    LET keep == {i \in 1..Len(s) : s[i] \notin WhiteSpace}
    IN  IF keep = {} THEN <<>> ELSE SubSeq(s, SetMin(keep), SetMax(keep))

RECURSIVE SplitLines(_)
\* s.split('\n')
SplitLines(s) ==
    LET nl == {i \in 1..Len(s) : s[i] = "\n"}
    IN  IF nl = {} THEN <<s>>
        ELSE <<SubSeq(s, 1, SetMin(nl) - 1)>>
                 \o SplitLines(SubSeq(s, SetMin(nl) + 1, Len(s)))

RECURSIVE JoinLines(_)
\* '\n'.join(lines)
JoinLines(lines) ==
    IF lines = <<>> THEN <<>>
    ELSE IF Len(lines) = 1 THEN lines[1]
    ELSE lines[1] \o <<"\n">> \o JoinLines(Tail(lines))

----------------------------------------------------------------------------
(* The literals of _parse_results                                          *)

\* the text 'Market Position'
MarketPosition ==
    <<"M", "a", "r", "k", "e", "t", " ", "P", "o", "s", "i", "t", "i", "o", "n">>

\* the text 'Competitors'
Competitors ==
    <<"C", "o", "m", "p", "e", "t", "i", "t", "o", "r", "s">>

\* the text 'Market Share'
MarketShare ==
    <<"M", "a", "r", "k", "e", "t", " ", "S", "h", "a", "r", "e">>

\* the text 'Financial Metrics'
FinancialMetrics ==
    <<"F", "i", "n", "a", "n", "c", "i", "a", "l", " ", "M", "e", "t", "r", "i", "c", "s">>

\* the text 'Hiring Metrics'
HiringMetrics ==
    <<"H", "i", "r", "i", "n", "g", " ", "M", "e", "t", "r", "i", "c", "s">>

\* the text 'Growth Indicators'
GrowthIndicators ==
    <<"G", "r", "o", "w", "t", "h", " ", "I", "n", "d", "i", "c", "a", "t", "o", "r", "s">>

\* the text 'pydantic'
SkipPydantic ==
    <<"p", "y", "d", "a", "n", "t", "i", "c">>

\* the text 'json_dict'
SkipJsonDict ==
    <<"j", "s", "o", "n", "_", "d", "i", "c", "t">>

\* the text 'token_usage'
SkipTokenUsage ==
    <<"t", "o", "k", "e", "n", "_", "u", "s", "a", "g", "e">>

\* the text '('
PrefixParen ==
    <<"(">>

\* the text 'Task'
PrefixTask ==
    <<"T", "a", "s", "k">>

\* the text 'pydantic'
PrefixPydantic ==
    <<"p", "y", "d", "a", "n", "t", "i", "c">>
\* sample line 'Market Share: 10%'
LnShare ==
    <<"M", "a", "r", "k", "e", "t", " ", "S", "h", "a", "r", "e", ":", " ", "1", "0", "%">>

\* sample line 'Competitors: A, B'
LnCompetitors ==
    <<"C", "o", "m", "p", "e", "t", "i", "t", "o", "r", "s", ":", " ", "A", ",", " ", "B">>

\* sample line 'Financial Metrics: x'
LnFinancial ==
    <<"F", "i", "n", "a", "n", "c", "i", "a", "l", " ", "M", "e", "t", "r", "i", "c", "s", ":", " ", "x">>

\* sample line '(internal) Task complete'
LnInternal ==
    <<"(", "i", "n", "t", "e", "r", "n", "a", "l", ")", " ", "T", "a", "s", "k", " ", "c", "o", "m", "p", "l", "e", "t", "e">>

\* sample line 'Task: Hiring Metrics'
LnTaskHiring ==
    <<"T", "a", "s", "k", ":", " ", "H", "i", "r", "i", "n", "g", " ", "M", "e", "t", "r", "i", "c", "s">>

\* sample line '(Market Position)'
LnParenMarket ==
    <<"(", "M", "a", "r", "k", "e", "t", " ", "P", "o", "s", "i", "t", "i", "o", "n", ")">>

\* sample line '  Growth Indicators (est.) '
LnGrowth ==
    <<" ", " ", "G", "r", "o", "w", "t", "h", " ", "I", "n", "d", "i", "c", "a", "t", "o", "r", "s", " ", "(", "e", "s", "t", ".", ")", " ">>

\* sample line ' \t'
LnBlank ==
    <<" ", "\t">>

\* sample line 'token_usage Market Share'
LnUsage ==
    <<"t", "o", "k", "e", "n", "_", "u", "s", "a", "g", "e", " ", "M", "a", "r", "k", "e", "t", " ", "S", "h", "a", "r", "e">>

\* sample line 'Pydantic Hiring Metrics'
LnPydantic ==
    <<"P", "y", "d", "a", "n", "t", "i", "c", " ", "H", "i", "r", "i", "n", "g", " ", "M", "e", "t", "r", "i", "c", "s">>

\* sample line '- Revenue: 5'
LnPlain ==
    <<"-", " ", "R", "e", "v", "e", "n", "u", "e", ":", " ", "5">>

\* sample line ' (draft) x'
LnIndented ==
    <<" ", "(", "d", "r", "a", "f", "t", ")", " ", "x">>
\* line 229: "credit balance is too low"
CreditText ==
    <<"c", "r", "e", "d", "i", "t", " ", "b", "a", "l", "a", "n", "c", "e", " ", "i", "s", " ",
      "t", "o", "o", " ", "l", "o", "w">>

\* line 231: "rate limit"
RateText ==
    <<"r", "a", "t", "e", " ", "l", "i", "m", "i", "t">>

\* line 230: the message of the reclassified error
DepletedMsg ==
    <<"A", "P", "I", " ", "c", "r", "e", "d", "i", "t", "s", " ", "d", "e", "p", "l", "e", "t",
      "e", "d", ".", " ", "P", "l", "e", "a", "s", "e", " ", "c", "h", "e", "c", "k", " ", "y",
      "o", "u", "r", " ", "A", "n", "t", "h", "r", "o", "p", "i", "c", " ", "A", "P", "I", " ",
      "a", "c", "c", "o", "u", "n", "t", ".">>

\* line 235: the prefix of the wrapped error
WrapPrefix ==
    <<"E", "r", "r", "o", "r", " ", "a", "n", "a", "l", "y", "z", "i", "n", "g", " ", "c", "o",
      "m", "p", "a", "n", "y", ":", " ">>

\* the message of the NameError of lines 199 and 223
NameErrorMsg ==
    <<"n", "a", "m", "e", " ", "'", "s", "t", "'", " ", "i", "s", " ", "n", "o", "t", " ", "d",
      "e", "f", "i", "n", "e", "d">>

\* a billing failure of the reasoning engine
MsgCredit ==
    <<"Y", "o", "u", "r", " ", "c", "r", "e", "d", "i", "t", " ", "b", "a", "l", "a", "n", "c",
      "e", " ", "i", "s", " ", "t", "o", "o", " ", "l", "o", "w">>

\* a rate-limit failure of the reasoning engine
MsgRate ==
    <<"R", "a", "t", "e", " ", "l", "i", "m", "i", "t", " ", "e", "x", "c", "e", "e", "d", "e",
      "d">>

\* a failure that names both
MsgRateCredit ==
    <<"r", "a", "t", "e", " ", "l", "i", "m", "i", "t", ":", " ", "c", "r", "e", "d", "i", "t",
      " ", "b", "a", "l", "a", "n", "c", "e", " ", "i", "s", " ", "t", "o", "o", " ", "l", "o",
      "w">>

\* another failure
MsgOther ==
    <<"c", "o", "n", "n", "e", "c", "t", "i", "o", "n", " ", "r", "e", "s", "e", "t">>

\* a company name
NameAcme ==
    <<"A", "c", "m", "e">>

\* the same name in lower case
NameAcmeLower ==
    <<"a", "c", "m", "e">>

\* an output of the hiring task
OutHiring ==
    <<"H", "i", "r", "i", "n", "g", " ", "M", "e", "t", "r", "i", "c", "s", ":", " ", "y">>

\* an output of the market task
OutMarket ==
    <<"M", "a", "r", "k", "e", "t", " ", "P", "o", "s", "i", "t", "i", "o", "n", ":", "\n", "-",
      " ", "C", "o", "m", "p", "e", "t", "i", "t", "o", "r", "s", ":", " ", "A">>

\* the message of the AttributeError of line 130 when __init__ has set no self.agents
AttributeErrorMsg ==
    <<"'", "H", "i", "r", "i", "n", "g", "A", "n", "a", "l", "y", "t", "i", "c", "s", "C", "r",
      "e", "w", "'", " ", "o", "b", "j", "e", "c", "t", " ", "h", "a", "s", " ", "n", "o", " ",
      "a", "t", "t", "r", "i", "b", "u", "t", "e", " ", "'", "a", "g", "e", "n", "t", "s", "'">>

\* line 303: the heading of the canned research text
FinancialHeading ==
    <<"F", "i", "n", "a", "n", "c", "i", "a", "l", " ", "M", "e", "t", "r", "i", "c", "s", ":">>

\* line 323: the heading of the canned market text
MarketHeading ==
    <<"M", "a", "r", "k", "e", "t", " ", "P", "o", "s", "i", "t", "i", "o", "n", ":">>

\* a company name of one space
NameBlank == <<" ">>

\* the empty company name
NameEmpty == <<>>
\* lines 303-319: the research text of the mock results
MockResearch ==
    <<"F", "i", "n", "a", "n", "c", "i", "a", "l", " ", "M", "e", "t", "r", "i", "c", "s", ":",
      "\n", "-", " ", "R", "e", "v", "e", "n", "u", "e", ":", " ", "$", "5", "0", "0", "M", " ",
      "a", "n", "n", "u", "a", "l", " ", "(", "e", "s", "t", "i", "m", "a", "t", "e", "d", ")",
      "\n", "-", " ", "P", "r", "o", "f", "i", "t", " ", "M", "a", "r", "g", "i", "n", "s", ":",
      " ", "1", "5", "-", "2", "0", "%", "\n", "-", " ", "C", "a", "s", "h", " ", "P", "o", "s",
      "i", "t", "i", "o", "n", ":", " ", "S", "t", "r", "o", "n", "g", ",", " ", "w", "i", "t",
      "h", " ", "s", "i", "g", "n", "i", "f", "i", "c", "a", "n", "t", " ", "r", "e", "s", "e",
      "r", "v", "e", "s", "\n", "-", " ", "R", "e", "c", "e", "n", "t", " ", "F", "u", "n", "d",
      "i", "n", "g", ":", " ", "S", "e", "r", "i", "e", "s", " ", "C", ",", " ", "$", "1", "0",
      "0", "M", " ", "(", "2", "0", "2", "3", ")", "\n", "\n", "H", "i", "r", "i", "n", "g", " ",
      "M", "e", "t", "r", "i", "c", "s", ":", "\n", "-", " ", "A", "c", "t", "i", "v", "e", " ",
      "O", "p", "e", "n", "i", "n", "g", "s", ":", " ", "4", "5", " ", "p", "o", "s", "i", "t",
      "i", "o", "n", "s", "\n", "-", " ", "K", "e", "y", " ", "D", "e", "p", "a", "r", "t", "m",
      "e", "n", "t", "s", ":", " ", "E", "n", "g", "i", "n", "e", "e", "r", "i", "n", "g", ",",
      " ", "S", "a", "l", "e", "s", ",", " ", "O", "p", "e", "r", "a", "t", "i", "o", "n", "s",
      "\n", "-", " ", "G", "r", "o", "w", "t", "h", " ", "A", "r", "e", "a", "s", ":", " ", "D",
      "a", "t", "a", " ", "S", "c", "i", "e", "n", "c", "e", ",", " ", "C", "l", "o", "u", "d",
      " ", "I", "n", "f", "r", "a", "s", "t", "r", "u", "c", "t", "u", "r", "e", "\n", "-", " ",
      "H", "i", "r", "i", "n", "g", " ", "V", "e", "l", "o", "c", "i", "t", "y", ":", " ", "S",
      "t", "e", "a", "d", "y", " ", "i", "n", "c", "r", "e", "a", "s", "e", "\n", "\n", "G", "r",
      "o", "w", "t", "h", " ", "I", "n", "d", "i", "c", "a", "t", "o", "r", "s", ":", "\n", "-",
      " ", "E", "m", "p", "l", "o", "y", "e", "e", " ", "G", "r", "o", "w", "t", "h", ":", " ",
      "2", "5", "%", " ", "Y", "o", "Y", "\n", "-", " ", "L", "o", "c", "a", "t", "i", "o", "n",
      "s", ":", " ", "5", " ", "g", "l", "o", "b", "a", "l", " ", "o", "f", "f", "i", "c", "e",
      "s", ",", " ", "e", "x", "p", "a", "n", "d", "i", "n", "g", "\n", "-", " ", "P", "r", "o",
      "d", "u", "c", "t", "s", ":", " ", "3", " ", "n", "e", "w", " ", "l", "a", "u", "n", "c",
      "h", "e", "s", " ", "i", "n", " ", "2", "0", "2", "3", "\n", "-", " ", "E", "x", "p", "a",
      "n", "s", "i", "o", "n", ":", " ", "A", "P", "A", "C", " ", "m", "a", "r", "k", "e", "t",
      " ", "e", "n", "t", "r", "y", " ", "p", "l", "a", "n", "n", "e", "d">>

\* lines 323-325: the market text of the mock results, up to the company name
MockMarketHead ==
    <<"M", "a", "r", "k", "e", "t", " ", "P", "o", "s", "i", "t", "i", "o", "n", ":", "\n", "C",
      "o", "m", "p", "e", "t", "i", "t", "o", "r", "s", ":", "\n", "-", " ">>

\* lines 325-347: the market text of the mock results, after the company name
MockMarketTail ==
    <<" ", "(", "1", "0", "%", " ", "m", "a", "r", "k", "e", "t", " ", "s", "h", "a", "r", "e",
      ")", "\n", "-", " ", "I", "n", "d", "u", "s", "t", "r", "y", " ", "L", "e", "a", "d", "e",
      "r", " ", "C", "o", "r", "p", " ", "(", "3", "0", "%", " ", "m", "a", "r", "k", "e", "t",
      " ", "s", "h", "a", "r", "e", ")", "\n", "-", " ", "G", "l", "o", "b", "a", "l", " ", "S",
      "o", "l", "u", "t", "i", "o", "n", "s", " ", "I", "n", "c", " ", "(", "2", "0", "%", " ",
      "m", "a", "r", "k", "e", "t", " ", "s", "h", "a", "r", "e", ")", "\n", "-", " ", "R", "e",
      "g", "i", "o", "n", "a", "l", " ", "P", "l", "a", "y", "e", "r", " ", "L", "t", "d", " ",
      "(", "1", "5", "%", " ", "m", "a", "r", "k", "e", "t", " ", "s", "h", "a", "r", "e", ")",
      "\n", "\n", "M", "a", "r", "k", "e", "t", " ", "S", "h", "a", "r", "e", ":", "\n", "-",
      " ", "1", "0", "%", " ", "g", "l", "o", "b", "a", "l", " ", "m", "a", "r", "k", "e", "t",
      " ", "s", "h", "a", "r", "e", "\n", "-", " ", "S", "t", "r", "o", "n", "g", " ", "r", "e",
      "g", "i", "o", "n", "a", "l", " ", "p", "r", "e", "s", "e", "n", "c", "e", "\n", "-", " ",
      "G", "r", "o", "w", "i", "n", "g", " ", "i", "n", " ", "e", "m", "e", "r", "g", "i", "n",
      "g", " ", "m", "a", "r", "k", "e", "t", "s", "\n", "\n", "I", "n", "d", "u", "s", "t", "r",
      "y", " ", "T", "r", "e", "n", "d", "s", ":", "\n", "-", " ", "D", "i", "g", "i", "t", "a",
      "l", " ", "t", "r", "a", "n", "s", "f", "o", "r", "m", "a", "t", "i", "o", "n", " ", "a",
      "c", "c", "e", "l", "e", "r", "a", "t", "i", "o", "n", "\n", "-", " ", "A", "I", "/", "M",
      "L", " ", "i", "n", "t", "e", "g", "r", "a", "t", "i", "o", "n", " ", "i", "n", " ", "c",
      "o", "r", "e", " ", "o", "p", "e", "r", "a", "t", "i", "o", "n", "s", "\n", "-", " ", "S",
      "u", "s", "t", "a", "i", "n", "a", "b", "i", "l", "i", "t", "y", " ", "i", "n", "i", "t",
      "i", "a", "t", "i", "v", "e", "s", "\n", "-", " ", "R", "e", "m", "o", "t", "e", " ", "w",
      "o", "r", "k", "f", "o", "r", "c", "e", " ", "a", "d", "o", "p", "t", "i", "o", "n", "\n",
      "-", " ", "S", "u", "p", "p", "l", "y", " ", "c", "h", "a", "i", "n", " ", "o", "p", "t",
      "i", "m", "i", "z", "a", "t", "i", "o", "n", "\n", "\n", "C", "h", "a", "l", "l", "e", "n",
      "g", "e", "s", ":", "\n", "-", " ", "I", "n", "t", "e", "n", "s", "e", " ", "m", "a", "r",
      "k", "e", "t", " ", "c", "o", "m", "p", "e", "t", "i", "t", "i", "o", "n", "\n", "-", " ",
      "T", "a", "l", "e", "n", "t", " ", "a", "c", "q", "u", "i", "s", "i", "t", "i", "o", "n",
      " ", "i", "n", " ", "k", "e", "y", " ", "a", "r", "e", "a", "s", "\n", "-", " ", "T", "e",
      "c", "h", "n", "o", "l", "o", "g", "y", " ", "a", "d", "a", "p", "t", "a", "t", "i", "o",
      "n", " ", "c", "o", "s", "t", "s", "\n", "-", " ", "R", "e", "g", "u", "l", "a", "t", "o",
      "r", "y", " ", "c", "o", "m", "p", "l", "i", "a", "n", "c", "e", "\n", "-", " ", "M", "a",
      "r", "k", "e", "t", " ", "v", "o", "l", "a", "t", "i", "l", "i", "t", "y">>

\* line 267: the market terms
MarketTerms == {MarketPosition, Competitors, MarketShare}

\* line 269: the research metrics
ResearchMetrics == {FinancialMetrics, HiringMetrics, GrowthIndicators}

\* line 263: the metadata words, looked for in content.lower()
SkipWords == {SkipPydantic, SkipJsonDict, SkipTokenUsage}

\* line 278: the prefixes of the lines clean_text removes
NoisePrefixes == {PrefixParen, PrefixTask, PrefixPydantic}

----------------------------------------------------------------------------
(* _parse_results                                                          *)

\* line 263: not content or any(skip in content.lower() for skip in [...])
IsSkipped(content) ==
    \/ content = <<>>
    \/ \E skip \in SkipWords : Contains(Lower(content), skip)

\* line 267: any(market_term in content for market_term in [...])
HasMarketTerm(content) == \E market_term \in MarketTerms : Contains(content, market_term)

\* line 269: any(metric in content for metric in [...])
HasResearchMetric(content) == \E metric \in ResearchMetrics : Contains(content, metric)

\* Categorize without the metadata test of line 263
Categorize_NoSkip(b, content) ==
    IF HasMarketTerm(content)
    THEN [b EXCEPT !.market_data = Append(@, content)]
    ELSE IF HasResearchMetric(content)
         THEN [b EXCEPT !.research_data = Append(@, content)]
    ELSE b

\* Categorize with the two tests of lines 267 and 269 in the other order
Categorize_ResearchFirst(b, content) ==
    IF IsSkipped(content) THEN b
    ELSE IF HasResearchMetric(content)
         THEN [b EXCEPT !.research_data = Append(@, content)]
    ELSE IF HasMarketTerm(content)
         THEN [b EXCEPT !.market_data = Append(@, content)]
    ELSE b

\* Categorize with `if` for the `elif` of line 269
Categorize_Both(b, content) ==
    IF IsSkipped(content) THEN b
    ELSE LET m == IF HasMarketTerm(content)
                  THEN [b EXCEPT !.market_data = Append(@, content)]
                  ELSE b
         IN  IF HasResearchMetric(content)
             THEN [m EXCEPT !.research_data = Append(@, content)]
             ELSE m

\* lines 262-270, one iteration of the loop on the buckets b = [research_data, market_data]
Categorize(b, content) ==
    IF IsSkipped(content) THEN b
    ELSE IF HasMarketTerm(content)
         THEN [b EXCEPT !.market_data = Append(@, content)]
    ELSE IF HasResearchMetric(content)
         THEN [b EXCEPT !.research_data = Append(@, content)]
    ELSE b

\* line 278: the condition of the list comprehension
KeepLine(line) ==
    /\ Strip(line) # <<>>
    /\ ~ \E pre \in NoisePrefixes : StartsWith(Strip(line), pre)

\* CleanLines keeping the lines as written, without line.strip()
CleanLines_NoStrip(text) == SelectSeq(SplitLines(text), KeepLine)

\* lines 277-278: [line.strip() for line in text.split('\n') if ...]
CleanLines(text) ==
    LET kept == SelectSeq(SplitLines(text), KeepLine)
    IN  [i \in 1..Len(kept) |-> Strip(kept[i])]

RECURSIVE Cleaned(_)
\* lines 274-279: cleaned, extended with the lines of each text in turn
Cleaned(text_list) ==
    IF text_list = <<>> THEN <<>>
    ELSE CleanLines(Head(text_list)) \o Cleaned(Tail(text_list))

\* lines 273-280
clean_text(text_list) == JoinLines(Cleaned(text_list))

\* a returned dict that lists only the buckets something was put into
Report_OmitEmpty(research, market) ==
    [tasks_output |->
        (IF research = <<>> THEN <<>>
         ELSE << [task |-> "Research", raw |-> clean_text(research)] >>)
        \o (IF market = <<>> THEN <<>>
            ELSE << [task |-> "Market Analysis", raw |-> clean_text(market)] >>)]

\* lines 282-293: the returned dict
Report(research, market) ==
    [tasks_output |->
        << [task |-> "Research", raw |-> clean_text(research)],
           [task |-> "Market Analysis", raw |-> clean_text(market)] >>]

NoReport == [tasks_output |-> <<>>]

EmptyBuckets == [research_data |-> <<>>, market_data |-> <<>>]

RECURSIVE Buckets(_)
\* lines 251-270: the buckets after the whole loop
Buckets(task_outputs) ==
    IF task_outputs = <<>> THEN EmptyBuckets
    ELSE Categorize(Buckets(SubSeq(task_outputs, 1, Len(task_outputs) - 1)),
                    task_outputs[Len(task_outputs)])

\* lines 237-293, for a list argument
_parse_results(output) ==
    Report(Buckets(output).research_data, Buckets(output).market_data)


----------------------------------------------------------------------------
(* Optional values and dicts                                               *)

\* Python's None, and a present value
None == <<>>

Some(v) == <<v>>

\* the empty dict
EmptyDict == [k \in {} |-> 0]

\* {**d, k: v}
DictSet(d, k, v) == [f \in DOMAIN d \cup {k} |-> IF f = k THEN v ELSE d[f]]

\* the truth value of an optional list: None and the empty list are false
Truthy(v) == IF v = None THEN FALSE ELSE v[1] # <<>>

\* d.get(k, default)
DictGet(d, k, default) == IF k \in DOMAIN d THEN d[k] ELSE default

----------------------------------------------------------------------------
(* create_tasks                                                            *)

\* lines 73-118: the roles of self.agents, in the order of line 120
Agents ==
    <<"Financial Analyst", "Hiring Trends Analyst", "Growth Metrics Analyst",
      "Market Intelligence Specialist">>

\* create_tasks with growth_task missing from the context of market_task
create_tasks_ContextMissing(name) ==
    LET financial_task ==
            [description |-> <<"Research ", name, "'s financial metrics">>,
             agent |-> Agents[1],
             expected_output |-> "Financial metrics analysis",
             context |-> <<>>]
        jobs_task ==
            [description |-> <<"Analyze ", name, "'s hiring">>,
             agent |-> Agents[2],
             expected_output |-> "Hiring patterns analysis",
             context |-> <<>>]
        growth_task ==
            [description |-> <<"Check ", name, "'s growth">>,
             agent |-> Agents[3],
             expected_output |-> "Growth indicators analysis",
             context |-> <<>>]
        market_task ==
            [description |-> <<"Research and analyze ", name, "'s market position">>,
             agent |-> Agents[4],
             expected_output |->
                 "Structured market analysis with competitors, share, trends, and challenges",
             context |-> <<financial_task, jobs_task>>]
    IN  <<financial_task, jobs_task, growth_task, market_task>>

\* create_tasks with financial_task twice in the context of market_task
create_tasks_ContextTwice(name) ==
    LET t == create_tasks_ContextMissing(name)
    IN  [t EXCEPT ![4].context = <<t[1], t[1], t[2], t[3]>>]

\* lines 122-173. A description is its f-string: the text before the company
\* name, the company name, and the first line of the text after it.
create_tasks(name) ==
    LET financial_task ==
            [description |-> <<"Research ", name, "'s financial metrics">>,
             agent |-> Agents[1],
             expected_output |-> "Financial metrics analysis",
             context |-> <<>>]
        jobs_task ==
            [description |-> <<"Analyze ", name, "'s hiring">>,
             agent |-> Agents[2],
             expected_output |-> "Hiring patterns analysis",
             context |-> <<>>]
        growth_task ==
            [description |-> <<"Check ", name, "'s growth">>,
             agent |-> Agents[3],
             expected_output |-> "Growth indicators analysis",
             context |-> <<>>]
        market_task ==
            [description |-> <<"Research and analyze ", name, "'s market position">>,
             agent |-> Agents[4],
             expected_output |->
                 "Structured market analysis with competitors, share, trends, and challenges",
             context |-> <<financial_task, jobs_task, growth_task>>]
    IN  <<financial_task, jobs_task, growth_task, market_task>>

----------------------------------------------------------------------------
(* The cache                                                               *)

\* line 358: datetime.now().strftime('%Y%m%d'), the day of the time t
SecondsPerDay == 86400

Date(t) == t \div SecondsPerDay


\* _generate_cache_key without the task descriptions in the hashed data
_generate_cache_key_NoTasks(name) ==
    <<"company_analysis_",
      [company_name |-> Lower(name),
       tasks |-> <<>>,
       version |-> "1.0",
       date |-> Date(now),
       config |-> [model |-> "claude-3-sonnet-20240229", process |-> "hierarchical"]]>>

\* lines 352-365. The md5 digest is taken as injective: the key is the prefix
\* and the hashed data.
_generate_cache_key(name) ==
    <<"company_analysis_",
      [company_name |-> Lower(name),
       tasks |-> [i \in 1..Len(create_tasks(name)) |-> create_tasks(name)[i].description],
       version |-> "1.0",
       date |-> Date(now),
       config |-> [model |-> "claude-3-sonnet-20240229", process |-> "hierarchical"]]>>

\* Cache.get(key), lines 30-31: None for a key that was never set
CacheGet(key) == IF key \in DOMAIN cache_store THEN cache_store[key] ELSE None

\* Cache.get_metadata(key), lines 38-39: the fallback class has no metadata
CacheGetMetadata(key) ==
    IF fallback \/ key \notin DOMAIN cache_meta THEN EmptyDict ELSE cache_meta[key]

\* Cache.set storing the value without its last element
CacheSet_Truncated(store, key, value) ==
    [k \in DOMAIN store \cup {key} |->
        IF k = key THEN Some(SubSeq(value[1], 1, Len(value[1]) - 1)) ELSE store[k]]

\* Cache.set(key, value), lines 34-35
CacheSet(store, key, value) ==
    [k \in DOMAIN store \cup {key} |-> IF k = key THEN value ELSE store[k]]

\* Cache.set_metadata(key, value), lines 42-43: the fallback class stores nothing
CacheSetMetadata(meta, key, value) ==
    IF fallback THEN meta
    ELSE [k \in DOMAIN meta \cup {key} |-> IF k = key THEN value ELSE meta[k]]

\* 'unknown', the default of line 372
Unknown == -1

\* lines 367-377; ok is FALSE when Cache.get_metadata raises
_get_cache_metadata(key, ok) ==
    IF ok
    THEN LET metadata == CacheGetMetadata(key)
         IN  [timestamp |-> DictGet(metadata, "timestamp", Unknown),
              ttl |-> DictGet(metadata, "ttl", 0),
              hits |-> DictGet(metadata, "hits", 0)]
    ELSE EmptyDict

----------------------------------------------------------------------------
(* The retry decorator and the except block of analyze_company             *)

\* line 176: stop_after_attempt(3)
MaxAttempts == 3

\* line 177: wait_exponential(multiplier=1, min=4, max=10)
WaitMultiplier == 1

WaitMin == 4

WaitMax == 10

\* line 211: time.sleep(2)
Cooldown == 2

\* line 232: time.sleep(5)
RateLimitPause == 5

Max2(a, b) == IF a >= b THEN a ELSE b

Min2(a, b) == IF a <= b THEN a ELSE b

\* wait_exponential without the floor of min=4
wait_exponential_NoFloor(n) == Min2(WaitMultiplier * 2 ^ (n - 1), WaitMax)

\* line 177: the wait after the attempt numbered n
wait_exponential(n) == Max2(WaitMin, Min2(WaitMultiplier * 2 ^ (n - 1), WaitMax))

\* an exception: its message, and the attempt it was created in
Exc(msg, n) == [msg |-> msg, attempt |-> n]

\* the except block with the re-raise of line 233 replaced by a wrapped error
ExceptBlock_WrapAll(e) ==
    IF Contains(e.msg, CreditText)
    THEN [branch |-> "credit", exc |-> Exc(DepletedMsg, e.attempt), sleep |-> 0]
    ELSE IF Contains(Lower(e.msg), RateText)
         THEN [branch |-> "rate", exc |-> Exc(WrapPrefix \o e.msg, e.attempt),
               sleep |-> RateLimitPause]
    ELSE [branch |-> "other", exc |-> Exc(WrapPrefix \o e.msg, e.attempt), sleep |-> 0]

\* lines 227-235: the exception the attempt raises for the exception e, and
\* the time it sleeps before
ExceptBlock(e) ==
    IF Contains(e.msg, CreditText)
    THEN [branch |-> "credit", exc |-> Exc(DepletedMsg, e.attempt), sleep |-> 0]
    ELSE IF Contains(Lower(e.msg), RateText)
         THEN [branch |-> "rate", exc |-> e, sleep |-> RateLimitPause]
    ELSE [branch |-> "other", exc |-> Exc(WrapPrefix \o e.msg, e.attempt), sleep |-> 0]

\* lines 199 and 223: st is not a name of the module (lines 1-46 import no
\* streamlit), so st.warning raises NameError inside the handler
WarningRaises == Exc(NameErrorMsg, attempt)

----------------------------------------------------------------------------
(* analyze_company                                                         *)

MaxCalls == 2

CompanyNames == {NameAcme, NameAcmeLower}

\* what the text input of the page (app.py line 86) may hold
TypedNames == {NameAcme, NameBlank, NameEmpty}

\* the messages a failed run of the Crew raises
CrewErrors == {MsgCredit, MsgRate, MsgRateCredit, MsgOther}

\* the output of each task of a run for the company named; the Market task
\* finds other things for different names
TaskTexts(name) ==
    <<LnFinancial, OutHiring, LnGrowth, IF name = NameAcme THEN OutMarket ELSE LnShare>>

NoOutcome == [kind |-> "none", report |-> NoReport, error |-> None]

Returned(report) == [kind |-> "returned", report |-> report, error |-> None]

Raised(e) == [kind |-> "raised", report |-> NoReport, error |-> Some(e)]

NoTasks == <<>>

Pending == [i \in 1..4 |-> "pending"]

NoOutputs == [i \in 1..4 |-> None]

\* lines 297-350
_get_mock_results(name) ==
    [tasks_output |->
        << [task |-> "Research", raw |-> MockResearch],
           [task |-> "Market Analysis", raw |-> MockMarketHead \o name \o MockMarketTail] >>]

\* the record of a Cache.set of line 216: the payload it was given, that it
\* was made in the current call, and the report its attempt returned (None
\* when it raised)
Write(payload, returned) == [payload |-> payload, fresh |-> TRUE, returned |-> returned]

\* the records of the Cache.set calls once a new call of analyze_company begins
Earlier(w) == [k \in DOMAIN w |-> [w[k] EXCEPT !.fresh = FALSE]]

\* no call of analyze_company has been made
NoCall ==
    /\ cache_store = EmptyDict
    /\ cache_meta = EmptyDict
    /\ written = EmptyDict
    /\ now = 0
    /\ calls = 0
    /\ pc = "idle"
    /\ company_name = NameAcme
    /\ attempt = 0
    /\ cache_key = None
    /\ tasks = NoTasks
    /\ task_state = Pending
    /\ task_output = NoOutputs
    /\ result = None
    /\ cache_error = None
    /\ raised = None
    /\ rate_limited = 0
    /\ outcome = NoOutcome

Init ==
    /\ test_mode \in BOOLEAN
    /\ fallback \in BOOLEAN
    /\ NoCall
    /\ crew_output = <<>>
    /\ task_shapes = <<>>
    /\ task_idx = 1
    /\ research_data = <<>>
    /\ market_data = <<>>
    /\ parse_pc = "idle"
    /\ parsed = NoReport
    /\ origin = "input"

\* lines 175-180: analyze_company is called, by line 107 of app.py or by
\* another caller of the class; the decorator starts attempt 1
Call(name) ==
    /\ pc \in {"idle", "done"}
    /\ calls < MaxCalls
    /\ calls' = calls + 1
    /\ company_name' = name
    /\ attempt' = 1
    /\ pc' = "attempt"
    /\ rate_limited' = 0
    /\ cache_key' = None
    /\ outcome' = NoOutcome
    /\ result' = None
    /\ cache_error' = None
    /\ raised' = None
    /\ written' = Earlier(written)
    /\ UNCHANGED <<parse_vars, cache_store, cache_meta, crew_vars, test_mode, fallback, now>>

\* app.py lines 88-107 and 280-287: the Analyze button, disabled for an empty
\* name (line 88), is clicked. Line 99 computes the cache key, and with it
\* builds the tasks from self.agents (lines 356, 130), which __init__ does not
\* set in test mode (lines 51-64): the AttributeError ends the handler at its
\* except. Line 100 reads the cache outside analyze_company; get_ok is FALSE
\* when that Cache.get raises. Otherwise line 107 calls analyze_company.
Request(name, get_ok) ==
    /\ pc \in {"idle", "done"}
    /\ calls < MaxCalls
    /\ name # NameEmpty
    /\ get_ok \/ (~ test_mode /\ ~ fallback)
    /\ calls' = calls + 1
    /\ company_name' = name
    /\ rate_limited' = 0
    /\ cache_key' = None
    /\ result' = None
    /\ cache_error' = None
    /\ raised' = None
    /\ IF test_mode
       THEN /\ attempt' = 0
            /\ pc' = "done"
            /\ outcome' = Raised(Exc(AttributeErrorMsg, 0))
       ELSE IF ~ get_ok
       THEN /\ attempt' = 0
            /\ pc' = "done"
            /\ outcome' = Raised(Exc(MsgOther, 0))
       ELSE /\ attempt' = 1
            /\ pc' = "attempt"
            /\ outcome' = NoOutcome
    /\ written' = Earlier(written)
    /\ UNCHANGED <<parse_vars, cache_store, cache_meta, crew_vars, test_mode, fallback, now>>

\* the attempt raises what the except block makes of the exception e; its
\* Crew and its key, locals of the attempt, are gone
AttemptRaises(e) ==
    /\ tasks' = NoTasks
    /\ task_state' = Pending
    /\ task_output' = NoOutputs
    /\ cache_key' = None
    /\ raised' = Some(ExceptBlock(e).exc)
    /\ rate_limited' = rate_limited + (IF ExceptBlock(e).branch = "rate" THEN 1 ELSE 0)
    /\ now' = now + ExceptBlock(e).sleep
    /\ pc' = "raised"

\* lines 182-183
TestModeReturn ==
    /\ pc = "attempt"
    /\ test_mode
    /\ outcome' = Returned(_get_mock_results(company_name))
    /\ pc' = "done"
    /\ UNCHANGED <<parse_vars, cache_vars, crew_vars, env_vars,
                   company_name, attempt, cache_key, result, cache_error, raised, rate_limited>>

\* lines 186-189 and 198-199: Cache.get raises, and so does the handler
LookupRaises ==
    /\ pc = "attempt"
    /\ ~ test_mode
    /\ ~ fallback
    /\ cache_error' = Some(Exc(MsgOther, attempt))
    /\ AttemptRaises(WarningRaises)
    /\ UNCHANGED <<parse_vars, cache_vars, test_mode, fallback, calls,
                   company_name, attempt, result, outcome>>

\* lines 186-197: a hit; md_ok is FALSE when Cache.get_metadata raises
LookupHit(md_ok) ==
    /\ pc = "attempt"
    /\ ~ test_mode
    /\ md_ok \/ ~ fallback
    /\ LET key == _generate_cache_key(company_name)
           cached_result == CacheGet(key)
           metadata == _get_cache_metadata(key, md_ok)
       IN  /\ Truthy(cached_result)
           /\ cache_meta' =
                  CacheSetMetadata(cache_meta, key,
                      DictSet(metadata, "hits", DictGet(metadata, "hits", 0) + 1))
           /\ outcome' = Returned(_parse_results(cached_result[1]))
           /\ cache_key' = Some(key)
    /\ pc' = "done"
    /\ UNCHANGED <<parse_vars, cache_store, written, crew_vars, env_vars,
                   company_name, attempt, result, cache_error, raised, rate_limited>>

\* lines 186-196 and 198-199: a hit whose Cache.set_metadata raises, and so
\* does the handler
LookupHitRaises ==
    /\ pc = "attempt"
    /\ ~ test_mode
    /\ ~ fallback
    /\ LET cached_result == CacheGet(_generate_cache_key(company_name))
       IN  Truthy(cached_result)
    /\ cache_error' = Some(Exc(MsgOther, attempt))
    /\ AttemptRaises(WarningRaises)
    /\ UNCHANGED <<parse_vars, cache_vars, test_mode, fallback, calls,
                   company_name, attempt, result, outcome>>

\* the attempt going on to the live run whatever the lookup found (no return
\* at line 197)
LookupMiss_Always ==
    /\ pc = "attempt"
    /\ ~ test_mode
    /\ cache_key' = Some(_generate_cache_key(company_name))
    /\ tasks' = create_tasks(company_name)
    /\ task_state' = Pending
    /\ task_output' = NoOutputs
    /\ now' = now + Cooldown
    /\ pc' = "crew"
    /\ UNCHANGED <<parse_vars, cache_vars, test_mode, fallback, calls,
                   company_name, attempt, result, cache_error, raised, rate_limited, outcome>>

\* a miss that stores an empty payload under the key before the live run
LookupMiss_Reserve ==
    /\ pc = "attempt"
    /\ ~ test_mode
    /\ LET cached_result == CacheGet(_generate_cache_key(company_name))
       IN  ~ Truthy(cached_result)
    /\ cache_store' = CacheSet(cache_store, _generate_cache_key(company_name), Some(<<>>))
    /\ cache_key' = Some(_generate_cache_key(company_name))
    /\ tasks' = create_tasks(company_name)
    /\ task_state' = Pending
    /\ task_output' = NoOutputs
    /\ now' = now + Cooldown
    /\ pc' = "crew"
    /\ UNCHANGED <<parse_vars, cache_meta, written, test_mode, fallback, calls,
                   company_name, attempt, result, cache_error, raised, rate_limited, outcome>>

\* lines 186-190 and 201-211: a miss; the Crew is built and the cooldown slept
LookupMiss ==
    /\ pc = "attempt"
    /\ ~ test_mode
    /\ LET cached_result == CacheGet(_generate_cache_key(company_name))
       IN  ~ Truthy(cached_result)
    /\ cache_key' = Some(_generate_cache_key(company_name))
    /\ tasks' = create_tasks(company_name)
    /\ task_state' = Pending
    /\ task_output' = NoOutputs
    /\ now' = now + Cooldown
    /\ pc' = "crew"
    /\ UNCHANGED <<parse_vars, cache_vars, test_mode, fallback, calls,
                   company_name, attempt, result, cache_error, raised, rate_limited, outcome>>

\* the positions in tasks of the tasks of the context of tasks[i]
ContextOf(i) ==
    {j \in 1..Len(tasks) : \E k \in 1..Len(tasks[i].context) : tasks[i].context[k] = tasks[j]}

Finished(i) == task_state[i] \in {"completed", "failed"}

\* line 212, the run of the Crew: a task starts once every task of its context
\* has completed or failed
StartTask(i) ==
    /\ pc = "crew"
    /\ task_state[i] = "pending"
    /\ \A j \in ContextOf(i) : Finished(j)
    /\ task_state' = [task_state EXCEPT ![i] = "running"]
    /\ UNCHANGED <<parse_vars, cache_vars, env_vars, call_vars, tasks, task_output>>

\* line 212, the run of the Crew: a running task completes with its output
CompleteTask(i) ==
    /\ pc = "crew"
    /\ task_state[i] = "running"
    /\ task_state' = [task_state EXCEPT ![i] = "completed"]
    /\ task_output' = [task_output EXCEPT ![i] = Some(TaskTexts(company_name)[i])]
    /\ UNCHANGED <<parse_vars, cache_vars, env_vars, call_vars, tasks>>

\* line 212, the run of the Crew: a running task fails
FailTask(i) ==
    /\ pc = "crew"
    /\ task_state[i] = "running"
    /\ task_state' = [task_state EXCEPT ![i] = "failed"]
    /\ UNCHANGED <<parse_vars, cache_vars, env_vars, call_vars, tasks, task_output>>

\* line 212 and lines 227-235: crew.kickoff() raises, a task having failed
KickoffRaises(msg) ==
    /\ pc = "crew"
    /\ \E i \in 1..4 : task_state[i] = "failed"
    /\ \A i \in 1..4 : task_state[i] # "running"
    /\ AttemptRaises(Exc(msg, attempt))
    /\ UNCHANGED <<parse_vars, cache_vars, test_mode, fallback, calls,
                   company_name, attempt, result, cache_error, outcome>>

\* line 212: crew.kickoff() returns the outputs of the four tasks
KickoffReturns ==
    /\ pc = "crew"
    /\ \A i \in 1..4 : task_state[i] = "completed"
    /\ result' = Some([i \in 1..4 |-> task_output[i][1]])
    /\ pc' = "write"
    /\ UNCHANGED <<parse_vars, cache_vars, crew_vars, env_vars,
                   company_name, attempt, cache_key, cache_error, raised, rate_limited, outcome>>

\* line 217: the metadata of a new entry
NewMetadata == [company |-> company_name, timestamp |-> now, hits |-> 1]

\* lines 214-225: the result is cached and the parsed result returned
StoreAndReturn ==
    /\ pc = "write"
    /\ LET report == _parse_results(result[1])
       IN  /\ cache_store' = CacheSet(cache_store, cache_key[1], result)
           /\ cache_meta' = CacheSetMetadata(cache_meta, cache_key[1], NewMetadata)
           /\ written' = DictSet(written, cache_key[1], Write(result[1], Some(report)))
           /\ outcome' = Returned(report)
    /\ pc' = "done"
    /\ tasks' = NoTasks
    /\ task_state' = Pending
    /\ task_output' = NoOutputs
    /\ UNCHANGED <<parse_vars, env_vars,
                   company_name, attempt, cache_key, result, cache_error, raised, rate_limited>>

\* lines 214-216 and 222-223: Cache.set raises, or Cache.set_metadata after
\* Cache.set has stored the result (stored), and so does the handler
StoreRaises(stored) ==
    /\ pc = "write"
    /\ ~ fallback
    /\ IF stored
       THEN /\ cache_store' = CacheSet(cache_store, cache_key[1], result)
            /\ written' = DictSet(written, cache_key[1], Write(result[1], None))
       ELSE UNCHANGED <<cache_store, written>>
    /\ cache_error' = Some(Exc(MsgOther, attempt))
    /\ AttemptRaises(WarningRaises)
    /\ UNCHANGED <<parse_vars, cache_meta, test_mode, fallback, calls,
                   company_name, attempt, result, outcome>>

\* the decorator without stop_after_attempt: it starts another attempt after
\* every attempt that raised
RetryAttempt_NoStop ==
    /\ pc = "raised"
    /\ now' = now + wait_exponential(attempt)
    /\ attempt' = attempt + 1
    /\ pc' = "attempt"
    /\ result' = None
    /\ cache_error' = None
    /\ raised' = None
    /\ UNCHANGED <<parse_vars, cache_vars, crew_vars, test_mode, fallback, calls,
                   company_name, cache_key, rate_limited, outcome>>

\* lines 175-179: the attempt raised and is not the last; the decorator waits
\* and starts the next attempt
RetryAttempt ==
    /\ pc = "raised"
    /\ attempt < MaxAttempts
    /\ now' = now + wait_exponential(attempt)
    /\ attempt' = attempt + 1
    /\ pc' = "attempt"
    /\ result' = None
    /\ cache_error' = None
    /\ raised' = None
    /\ UNCHANGED <<parse_vars, cache_vars, crew_vars, test_mode, fallback, calls,
                   company_name, cache_key, rate_limited, outcome>>

\* the decorator giving the caller an empty report, not the exception, after
\* the last attempt
RetryStop_ReturnsEmpty ==
    /\ pc = "raised"
    /\ attempt >= MaxAttempts
    /\ outcome' = Returned(_parse_results(<<>>))
    /\ pc' = "done"
    /\ UNCHANGED <<parse_vars, cache_vars, crew_vars, env_vars,
                   company_name, attempt, cache_key, result, cache_error, raised, rate_limited>>

\* lines 176 and 178: the last attempt raised; reraise=True gives the caller
\* its exception
RetryStop ==
    /\ pc = "raised"
    /\ attempt >= MaxAttempts
    /\ outcome' = Raised(raised[1])
    /\ pc' = "done"
    /\ UNCHANGED <<parse_vars, cache_vars, crew_vars, env_vars,
                   company_name, attempt, cache_key, result, cache_error, raised, rate_limited>>

Next ==
    \/ \E name \in CompanyNames : Call(name)
    \/ TestModeReturn
    \/ LookupRaises
    \/ \E md_ok \in BOOLEAN : LookupHit(md_ok)
    \/ LookupHitRaises
    \/ LookupMiss
    \/ \E i \in 1..4 : StartTask(i)
    \/ \E i \in 1..4 : CompleteTask(i)
    \/ \E i \in 1..4 : FailTask(i)
    \/ \E msg \in CrewErrors : KickoffRaises(msg)
    \/ KickoffReturns
    \/ StoreAndReturn
    \/ \E stored \in BOOLEAN : StoreRaises(stored)
    \/ RetryAttempt
    \/ RetryStop

Spec == Init /\ [][Next]_vars

\* the page of app.py: analyze_company is reached through the handler only
AppNext ==
    \/ \E name \in TypedNames, get_ok \in BOOLEAN : Request(name, get_ok)
    \/ LookupRaises
    \/ \E md_ok \in BOOLEAN : LookupHit(md_ok)
    \/ LookupHitRaises
    \/ LookupMiss
    \/ \E i \in 1..4 : StartTask(i)
    \/ \E i \in 1..4 : CompleteTask(i)
    \/ \E i \in 1..4 : FailTask(i)
    \/ \E msg \in CrewErrors : KickoffRaises(msg)
    \/ KickoffReturns
    \/ StoreAndReturn
    \/ \E stored \in BOOLEAN : StoreRaises(stored)
    \/ RetryAttempt
    \/ RetryStop

SpecApp == Init /\ [][AppNext]_vars

----------------------------------------------------------------------------
(* Runs whose result is empty                                              *)

\* line 212: crew.kickoff() returns a result that is an empty list
KickoffReturnsEmpty ==
    /\ pc = "crew"
    /\ \A i \in 1..4 : task_state[i] = "completed"
    /\ result' = Some(<<>>)
    /\ pc' = "write"
    /\ UNCHANGED <<parse_vars, cache_vars, crew_vars, env_vars,
                   company_name, attempt, cache_key, cache_error, raised, rate_limited, outcome>>

EmptyNext ==
    \/ Next
    \/ KickoffReturnsEmpty

SpecEmpty == Init /\ [][EmptyNext]_vars


----------------------------------------------------------------------------
(* _generate_cache_key on its own                                          *)

\* the days and the seconds of the day at which a key is computed
KeyDays == 0..2

KeySeconds == {0, 1, 2, 3599, 3600, 43199, 43200, 86398, 86399}

KeyTimes == {d * SecondsPerDay + s : d \in KeyDays, s \in KeySeconds}

KeyNames == {NameAcme, NameAcmeLower, NameBlank, NameEmpty}

\* line 186 (and app.py line 99): the key is computed for the name at the
\* time t, not before the last computation
KeyAt(name, t) ==
    /\ t >= now
    /\ now' = t
    /\ company_name' = name
    /\ cache_key' = Some(_generate_cache_key(name)')
    /\ UNCHANGED <<parse_vars, cache_vars, crew_vars, test_mode, fallback, calls,
                   pc, attempt, result, cache_error, raised, rate_limited, outcome>>

KeyNext == \E name \in KeyNames, t \in KeyTimes : KeyAt(name, t)

SpecKey == Init /\ [][KeyNext]_vars
----------------------------------------------------------------------------
(* The normalizer, one loop iteration at a time                            *)

MaxResults == 2

SampleLines ==
    {LnShare, LnCompetitors, LnFinancial, LnInternal, LnTaskHiring, LnParenMarket,
     LnGrowth, LnBlank, LnUsage, LnPydantic, LnPlain, LnIndented}

HeadLines == {LnShare, LnInternal, LnTaskHiring, LnParenMarket, LnUsage}

TailLines == {LnCompetitors, LnFinancial, LnGrowth, LnBlank, LnPlain, LnIndented}

\* the texts a TaskResult is drawn from: the empty text, every sample line,
\* and two-line texts
Texts ==
    {<<>>} \cup SampleLines
           \cup {JoinLines(<<a, b>>) : a \in HeadLines, b \in TailLines}

SeqsUpTo(S, n) == UNION {[1..k -> S] : k \in 0..n}

\* a TaskResult that is a str: line 260 takes str(task_output), the str itself
PlainShape == [holder |-> "str", kind |-> "text"]

\* lines 253-260, the content of a TaskResult: its output attribute, else its
\* raw attribute, else for a dict the value of 'output' or of 'raw' or '',
\* else str(task_output). None and '' are both false at line 263, and are <<>>
ExtractContent(text, shape) ==
    IF shape.holder = "str" THEN text
    ELSE IF shape.holder = "dict_empty" THEN <<>>
    ELSE IF shape.kind = "text" THEN text
    ELSE <<>>

\* line 263 with str(content).lower(): nothing raises
LowerRaises_Never(shape) == FALSE

\* line 263: content is true and has no lower(): it is neither a str nor None
LowerRaises(shape) == shape.holder \notin {"str", "dict_empty"} /\ shape.kind = "number"

ParseInit ==
    /\ crew_output \in SeqsUpTo(Texts, MaxResults)
    /\ task_shapes = [i \in 1..Len(crew_output) |-> PlainShape]
    /\ task_idx = 1
    /\ research_data = <<>>
    /\ market_data = <<>>
    /\ parse_pc = "loop"
    /\ parsed = NoReport
    /\ origin = "input"
    /\ test_mode = FALSE
    /\ fallback = TRUE
    /\ NoCall

\* lines 251-270: one iteration of `for task_output in task_outputs`
ParseLoop ==
    /\ parse_pc = "loop"
    /\ task_idx <= Len(crew_output)
    /\ ~ LowerRaises(task_shapes[task_idx])
    /\ LET b == Categorize([research_data |-> research_data, market_data |-> market_data],
                           ExtractContent(crew_output[task_idx], task_shapes[task_idx]))
       IN  /\ research_data' = b.research_data
           /\ market_data' = b.market_data
    /\ task_idx' = task_idx + 1
    /\ UNCHANGED <<crew_output, task_shapes, parse_pc, parsed, origin>>
    /\ UNCHANGED <<cache_vars, crew_vars, call_vars, env_vars>>

\* lines 272-293: the loop is over, the buckets are cleaned and returned
ParseReturn ==
    /\ parse_pc = "loop"
    /\ task_idx > Len(crew_output)
    /\ parsed' = Report(research_data, market_data)
    /\ parse_pc' = "done"
    /\ UNCHANGED <<crew_output, task_shapes, task_idx, research_data, market_data, origin>>
    /\ UNCHANGED <<cache_vars, crew_vars, call_vars, env_vars>>

\* a bucket text of the returned report is normalized again, as a single TaskResult
ParseAgain(i) ==
    /\ parse_pc = "done"
    /\ origin = "input"
    /\ parsed.tasks_output[i].raw # <<>>
    /\ crew_output' = <<parsed.tasks_output[i].raw>>
    /\ task_shapes' = <<PlainShape>>
    /\ origin' = parsed.tasks_output[i].task
    /\ task_idx' = 1
    /\ research_data' = <<>>
    /\ market_data' = <<>>
    /\ parse_pc' = "loop"
    /\ parsed' = NoReport
    /\ UNCHANGED <<cache_vars, crew_vars, call_vars, env_vars>>

ParseNext ==
    \/ ParseLoop
    \/ ParseReturn
    \/ \E i \in 1..2 : ParseAgain(i)

SpecParse == ParseInit /\ [][ParseNext]_vars

----------------------------------------------------------------------------
(* The normalizer on TaskResults of every handled shape                    *)

\* where a TaskResult holds its content: it is a str; an object with an
\* output attribute; one with a raw attribute only; a dict with the key
\* 'output'; one with the key 'raw' only; a dict with neither
Holders == {"str", "output", "raw", "dict_output", "dict_raw", "dict_empty"}

\* what the content is: a str, None, or a number other than 0
Kinds == {"text", "none", "number"}

ShapeTexts == {<<>>, LnShare, LnFinancial, LnInternal}

\* the TaskResults: a str or an object turned into one holds a text, a dict
\* without the keys holds nothing, the others hold a text, None or a number
ShapedResults ==
    {r \in [holder : Holders, kind : Kinds, text : ShapeTexts] :
        /\ r.kind # "text" => r.text = <<>>
        /\ r.holder = "str" => r.kind = "text"
        /\ r.holder = "dict_empty" => r.kind = "none"}

ShapesInit ==
    /\ \E rs \in SeqsUpTo(ShapedResults, MaxResults) :
          /\ crew_output = [i \in 1..Len(rs) |-> rs[i].text]
          /\ task_shapes = [i \in 1..Len(rs) |-> [holder |-> rs[i].holder, kind |-> rs[i].kind]]
    /\ task_idx = 1
    /\ research_data = <<>>
    /\ market_data = <<>>
    /\ parse_pc = "loop"
    /\ parsed = NoReport
    /\ origin = "input"
    /\ test_mode = FALSE
    /\ fallback = TRUE
    /\ NoCall

\* lines 263 and 294-295: content.lower() raises AttributeError, which the
\* except of _parse_results raises again as "Error parsing results: ..."
ParseRaises ==
    /\ parse_pc = "loop"
    /\ task_idx <= Len(crew_output)
    /\ LowerRaises(task_shapes[task_idx])
    /\ parse_pc' = "raised"
    /\ UNCHANGED <<crew_output, task_shapes, task_idx, research_data, market_data,
                   parsed, origin>>
    /\ UNCHANGED <<cache_vars, crew_vars, call_vars, env_vars>>

ShapesNext ==
    \/ ParseLoop
    \/ ParseReturn
    \/ ParseRaises

SpecShapes == ShapesInit /\ [][ShapesNext]_vars

----------------------------------------------------------------------------
(* Claims about analyze_company and create_tasks                           *)

\* C1: once an attempt has failed with the reclassified "API credits
\* depleted" error, the call ends with that error; no further attempt starts.
C1_CreditFailureNotRetried ==
    [][(pc = "raised" /\ raised[1].msg = DepletedMsg) =>
          /\ pc' = "done"
          /\ attempt' = attempt
          /\ outcome' = Raised(raised[1])]_vars

\* every attempt of the call so far ended at the re-raise of a rate-limit error
OnlyRateLimited == attempt > 0 /\ rate_limited = attempt

\* C2: when every live run fails with a rate-limit error, the call ends after
\* exactly 3 attempts with the error the third attempt raised; there is no
\* fourth attempt and no report.
C2_RateLimitedThreeAttempts ==
    /\ attempt <= 3
    /\ (pc = "done" /\ OnlyRateLimited) =>
          /\ attempt = 3
          /\ outcome.kind = "raised"
          /\ outcome.report = NoReport
          /\ outcome.error[1].attempt = 3
          /\ outcome.error[1].msg \in CrewErrors
          /\ Contains(Lower(outcome.error[1].msg), RateText)

\* C2 witness: a call has ended whose three attempts were all rate limited.
C2_Witness ==
    /\ pc = "done"
    /\ attempt = 3
    /\ rate_limited = 3
    /\ outcome.kind = "raised"

\* C3: when the cache lookup of an attempt raises, the same attempt goes on to
\* the live run, and the error is not raised.
C3_CacheReadErrorIsMiss ==
    [][(pc = "attempt" /\ cache_error' # None) =>
          /\ pc' = "crew"
          /\ attempt' = attempt
          /\ raised' = None]_vars

\* C4: when the cache write after a live run raises, the same attempt returns
\* the parsed report of that run, and nothing is raised.
C4_CacheWriteErrorStillReturns ==
    [][(pc = "write" /\ cache_error' # None) =>
          /\ pc' = "done"
          /\ attempt' = attempt
          /\ raised' = None
          /\ outcome' = Returned(_parse_results(result[1]))]_vars

\* C5: in a live run the Market task (the fourth) has not started, and has no
\* output, until each of the Financial, Hiring and Growth tasks has completed
\* or failed.
C5_MarketAfterIndependents ==
    (task_state[4] # "pending" \/ task_output[4] # None) =>
        \A i \in 1..3 : task_state[i] \in {"completed", "failed"}

\* C5 witness: the Market task runs after the Financial task failed and the
\* Hiring and Growth tasks completed.
C5_Witness ==
    /\ pc = "crew"
    /\ task_state = <<"failed", "completed", "completed", "running">>

\* C6: create_tasks returns the Financial, Hiring, Growth and Market tasks in
\* this order, for the company named; the context of the Market task is the
\* three other tasks, each once, and the three other tasks have no context.
C6_TaskGraph ==
    tasks # NoTasks =>
        /\ Len(tasks) = 4
        /\ tasks[1].agent = "Financial Analyst"
        /\ tasks[2].agent = "Hiring Trends Analyst"
        /\ tasks[3].agent = "Growth Metrics Analyst"
        /\ tasks[4].agent = "Market Intelligence Specialist"
        /\ \A i \in 1..4 : tasks[i].description[2] = company_name
        /\ \A i \in 1..3 : tasks[i].context = <<>>
        /\ Len(tasks[4].context) = 3
        /\ {tasks[4].context[k] : k \in 1..Len(tasks[4].context)}
              = {tasks[1], tasks[2], tasks[3]}
        /\ Cardinality({tasks[1], tasks[2], tasks[3]}) = 3

\* C6 witness: the tasks of a Crew were built for the lower-case company name.
C6_Witness ==
    /\ pc = "crew"
    /\ tasks # NoTasks
    /\ company_name = NameAcmeLower

----------------------------------------------------------------------------
(* Claims on the cache                                                     *)

\* the cache key an attempt computes for the current call at the current time
CurrentKey == _generate_cache_key(company_name)

\* the hit count stored for key in the metadata meta, 0 when none is stored
StoredHits(meta, key) ==
    IF key \in DOMAIN meta /\ "hits" \in DOMAIN meta[key] THEN meta[key].hits ELSE 0

\* the fields stored for key in the metadata meta, hits left out
OtherFields(meta, key) ==
    IF key \in DOMAIN meta
    THEN [f \in DOMAIN meta[key] \ {"hits"} |-> meta[key][f]]
    ELSE EmptyDict

\* a step in which analyze_company returns from its hit path (line 197)
HitStep == ~ test_mode /\ pc = "attempt" /\ pc' = "done"

\* a step in which analyze_company returns from its put path (line 225)
PutStep == pc = "write" /\ pc' = "done"

\* C11: the entry written after a live run has the hit count 1, which is what
\* the first hit after the put finds, and every hit on the key increases the
\* stored hit count by exactly 1.
C11_HitCounting ==
    [][ /\ PutStep => StoredHits(cache_meta', cache_key[1]) = 1
        /\ HitStep => StoredHits(cache_meta', CurrentKey)
                          = StoredHits(cache_meta, CurrentKey) + 1 ]_vars

\* C12: a cache hit changes only the hit count of the entry: the payload and
\* every metadata field other than hits are after the hit what they were
\* before it, also when reading the metadata fails during the hit.
C12_HitChangesOnlyHits ==
    [][ HitStep => /\ cache_store' = cache_store
                   /\ OtherFields(cache_meta', CurrentKey)
                          = OtherFields(cache_meta, CurrentKey) ]_vars

\* C13: after a live run has stored its result under a key, a call that hits
\* the cache on that key reads back the payload that was stored, and returns
\* the report the live run returned (the report of that payload).
C13_RoundTrip ==
    [][ HitStep =>
          /\ CurrentKey \in DOMAIN written
          /\ CacheGet(CurrentKey) = Some(written[CurrentKey].payload)
          /\ outcome'.kind = "returned"
          /\ outcome'.report = _parse_results(written[CurrentKey].payload)
          /\ written[CurrentKey].returned # None =>
                outcome'.report = written[CurrentKey].returned[1] ]_vars

\* C13 witness: the second call has returned, from the cache, the report the
\* first call returned after its live run for the lower-case name.
C13_Witness ==
    /\ pc = "done"
    /\ calls = 2
    /\ company_name = NameAcmeLower
    /\ cache_key # None
    /\ cache_key[1] \in DOMAIN written
    /\ ~ written[cache_key[1]].fresh
    /\ written[cache_key[1]].returned = Some(outcome.report)
    /\ outcome.kind = "returned"

\* C14: of two calls of _generate_cache_key, one after the other, those with
\* the same company name on the same calendar day return the same key, and
\* those with different company names, names that differ only in letter case
\* included, return different keys, on the same day or not.
C14_KeyDeterministic ==
    [][ (cache_key # None /\ cache_key' # None) =>
          /\ (company_name' = company_name
                 /\ now' \div SecondsPerDay = now \div SecondsPerDay) =>
                cache_key' = cache_key
          /\ company_name' # company_name => cache_key' # cache_key ]_vars

\* C14 witness: a key has been computed for the lower-case name in the last
\* second of the second day, after other keys.
C14_Witness ==
    /\ cache_key # None
    /\ company_name = NameAcmeLower
    /\ now = 2 * SecondsPerDay - 1
    /\ cache_key[1][2].date = 1
    /\ cache_key[1][2].company_name = NameAcmeLower

\* a step in which the decorator starts the next attempt after its wait
RetryStep == pc = "raised" /\ pc' = "attempt"

\* C16: an attempt whose live run fails returns no report; outside test mode
\* every report analyze_company returns is the report of the result of a live
\* run of the same attempt in which all four tasks completed, or of a cache
\* entry, and every cache entry was written from such a result.
C16_NoPartialSuccess ==
    [][ /\ pc' = "raised" => outcome' = NoOutcome
        /\ (pc = "raised" /\ pc' = "done") =>
              outcome'.kind = "raised" /\ outcome'.report = NoReport
        /\ (\E k \in DOMAIN written' :
                k \notin DOMAIN written \/ written'[k].payload # written[k].payload) =>
              /\ pc = "write"
              /\ written'[cache_key[1]].payload = result[1]
              /\ cache_store'[cache_key[1]] = result
        /\ pc = "write" =>
              /\ Len(result[1]) = 4
              /\ \A i \in 1..4 :
                    task_state[i] = "completed" /\ result[1][i] = task_output[i][1]
        /\ (~ test_mode /\ outcome'.kind = "returned" /\ outcome.kind # "returned") =>
              \/ /\ pc = "write"
                 /\ outcome'.report = _parse_results(result[1])
              \/ /\ pc = "attempt"
                 /\ CurrentKey \in DOMAIN written
                 /\ cache_store[CurrentKey] = Some(written[CurrentKey].payload)
                 /\ outcome'.report = _parse_results(written[CurrentKey].payload) ]_vars

\* C16 witness: a call has returned a report in its third attempt, after two
\* attempts whose live runs failed.
C16_Witness ==
    /\ pc = "done"
    /\ attempt = 3
    /\ outcome.kind = "returned"
    /\ cache_key # None
    /\ cache_key[1] \in DOMAIN written
    /\ written[cache_key[1]].fresh
    /\ written[cache_key[1]].returned = Some(outcome.report)
    /\ cache_error = None

\* C19 as stated: the wait before the first retry is 4 and the wait doubles
\* with the attempt number up to the cap: 4 after attempt 1, 8 after attempt
\* 2, never under 4 nor over 10.
C19_WaitGrows ==
    [][ RetryStep => /\ now' - now = Min2(4 * 2 ^ (attempt - 1), 10)
                     /\ now' - now >= 4
                     /\ now' - now <= 10 ]_vars

\* C19: the wait after the attempt numbered n is max(4, min(2^(n-1), 10)):
\* 4 before the first retry and 4 again before the second, never under 4 nor
\* over 10.
C19_WaitIsFloor ==
    [][ RetryStep => /\ now' - now = Max2(4, Min2(2 ^ (attempt - 1), 10))
                     /\ now' - now = 4
                     /\ attempt \in {1, 2} ]_vars

\* C19 witness: the third attempt starts 8 seconds after the first began, two
\* attempts having failed at the cache lookup without any other sleep.
C19_Witness ==
    /\ pc = "attempt"
    /\ attempt = 3
    /\ calls = 1
    /\ now = 8

\* C20: a retry restarts the entire run: the attempt after a failure begins at
\* the cache lookup with no tasks, result or error of the failed attempt; on a
\* miss it builds four new tasks, all pending; and on a hit it does not read an
\* entry written by an earlier, failed, attempt of the same call (a hit reads
\* an entry written by an earlier call).
C20_RetryRestartsRun ==
    [][ /\ RetryStep =>
              /\ tasks' = NoTasks
              /\ task_output' = NoOutputs
              /\ result' = None
              /\ raised' = None
        /\ (pc = "attempt" /\ pc' = "crew") =>
              /\ Len(tasks') = 4
              /\ task_state' = Pending
              /\ task_output' = NoOutputs
        /\ HitStep => ~ written[CurrentKey].fresh
      ]_vars

----------------------------------------------------------------------------
(* Claims on the page of app.py                                            *)

\* C15: in test mode an analysis request returns the canned report, whose
\* research text holds "Financial Metrics:" and whose market text holds
\* "Market Position:", both non-empty; it reads and writes no cache entry,
\* builds no tasks, runs nothing live, and does not fail.
C15_TestModeCannedReport ==
    test_mode =>
        /\ cache_store = EmptyDict
        /\ cache_meta = EmptyDict
        /\ tasks = NoTasks
        /\ pc \in {"idle", "attempt", "done"}
        /\ pc = "done" =>
              /\ outcome = Returned(_get_mock_results(company_name))
              /\ outcome.report.tasks_output[1].raw # <<>>
              /\ outcome.report.tasks_output[2].raw # <<>>
              /\ Contains(outcome.report.tasks_output[1].raw, FinancialHeading)
              /\ Contains(outcome.report.tasks_output[2].raw, MarketHeading)

\* C17: an analysis for an empty or blank company name fails at once with an
\* error: no attempt starts, so there is no cache lookup, live run or retry.
C17_BlankNameFailsFast ==
    (calls > 0 /\ Strip(company_name) = <<>>) =>
        /\ pc = "done"
        /\ attempt = 0
        /\ outcome.kind = "raised"

----------------------------------------------------------------------------
(* Claims on the attempts of a call                                        *)

\* a step in which a call of analyze_company begins
CallStep == calls' = calls + 1

\* C21: a call of analyze_company makes at most 3 attempts, whatever its
\* attempts do; it starts another attempt only after the previous one raised;
\* and once an attempt has returned a report the call makes no other attempt.
C21_AtMostThreeAttempts ==
    [][ /\ attempt <= 3 /\ attempt' <= 3
        /\ (attempt' # attempt /\ ~ CallStep) =>
              /\ attempt' = attempt + 1
              /\ pc = "raised"
              /\ raised # None
              /\ outcome = NoOutcome
        /\ (outcome.kind = "returned" /\ ~ CallStep) =>
              /\ pc = "done"
              /\ pc' = "done"
              /\ attempt' = attempt
              /\ outcome' = outcome ]_vars

\* C21 witness: a call has ended with an error after three attempts, one of
\* which was rate limited and two of which raised otherwise.
C21_Witness ==
    /\ pc = "done"
    /\ attempt = 3
    /\ rate_limited = 1
    /\ outcome.kind = "raised"

\* C22: an attempt whose Cache.get returns a non-empty payload, and whose
\* metadata update succeeds, returns without a cooldown pause, without
\* building or running tasks and without a Cache.set; an attempt reaches the
\* cooldown pause and the Crew only when the lookup found no payload or an
\* empty one.
C22_HitStartsNoRun ==
    [][ /\ HitStep =>
              /\ Truthy(CacheGet(CurrentKey))
              /\ cache_store' = cache_store
              /\ now' = now
              /\ tasks = NoTasks /\ tasks' = NoTasks
              /\ task_state' = Pending
              /\ result = None /\ result' = None
        /\ pc' = "crew" /\ pc # "crew" =>
              /\ pc = "attempt"
              /\ ~ Truthy(CacheGet(CurrentKey))
              /\ now' = now + 2 ]_vars

\* C22 witness: the second call has returned from the cache in its first
\* attempt: the only pause so far is the cooldown of the first call, and no
\* tasks exist.
C22_Witness ==
    /\ pc = "done"
    /\ calls = 2
    /\ attempt = 1
    /\ outcome.kind = "returned"
    /\ now = 2
    /\ tasks = NoTasks
    /\ result = None

\* C23: a payload is stored, and the metadata of lines 217-221 written, only
\* after crew.kickoff() has returned in the same attempt, and the payload is
\* what it returned; an attempt whose live run fails leaves the cache as it
\* was; the only other metadata write is the update of a hit, so the cache
\* holds metadata only for keys that have a payload.
C23_FailedRunNotCached ==
    [][ /\ cache_store' # cache_store =>
              /\ pc = "write"
              /\ result # None
              /\ \A i \in 1..4 : task_state[i] = "completed"
              /\ cache_store' = CacheSet(cache_store, cache_key[1], result)
        /\ (pc = "crew" /\ pc' = "raised") =>
              /\ cache_store' = cache_store
              /\ cache_meta' = cache_meta
        /\ DOMAIN cache_meta' \subseteq DOMAIN cache_store'
        /\ (cache_meta' # cache_meta /\ ~ HitStep) =>
              /\ pc = "write" /\ pc' = "done"
              /\ cache_meta' = CacheSetMetadata(cache_meta, cache_key[1], NewMetadata)
      ]_vars

\* C23 witness: a call has returned a report from its second attempt, whose
\* live run filled the cache with its one entry, after the live run of the
\* first attempt failed with a rate-limit error.
C23_Witness ==
    /\ pc = "done"
    /\ calls = 1
    /\ attempt = 2
    /\ rate_limited = 1
    /\ outcome.kind = "returned"
    /\ Cardinality(DOMAIN cache_store) = 1

\* the payload stored under key is an empty result
EmptyPayload(key) == key \in DOMAIN cache_store /\ cache_store[key] = Some(<<>>)

\* the timestamp stored for key in the metadata meta, Unknown when none is stored
StoredTimestamp(meta, key) ==
    IF key \in DOMAIN meta /\ "timestamp" \in DOMAIN meta[key]
    THEN meta[key].timestamp ELSE Unknown

\* C25: an attempt that finds an entry with an empty payload under its key
\* does not return from the cache: when the lookup raises nothing it goes on
\* to the live run; and when that run has returned and analyze_company
\* returns, the entry holds the new result, the hit count 1 and the time of
\* the new run as timestamp.
C25_EmptyPayloadIsMiss ==
    [][ /\ (pc = "attempt" /\ ~ test_mode /\ EmptyPayload(CurrentKey)
               /\ pc' # "attempt" /\ pc' # "raised") =>
              /\ pc' = "crew"
              /\ cache_vars' = cache_vars
        /\ (PutStep /\ EmptyPayload(cache_key[1])) =>
              /\ cache_store'[cache_key[1]] = result
              /\ StoredHits(cache_meta', cache_key[1]) = 1
              /\ StoredTimestamp(cache_meta', cache_key[1]) = now ]_vars

----------------------------------------------------------------------------
(* Claims about the normalizer                                             *)

\* a step of the for loop of _parse_results
LoopStep ==
    /\ parse_pc = "loop"
    /\ task_idx <= Len(crew_output)
    /\ task_idx' = task_idx + 1

\* the market markers, as the specification lists them
SpecMarket(c) ==
    Contains(c, MarketPosition) \/ Contains(c, Competitors) \/ Contains(c, MarketShare)

\* the research markers, as the specification lists them
SpecResearch(c) ==
    \/ Contains(c, FinancialMetrics)
    \/ Contains(c, HiringMetrics)
    \/ Contains(c, GrowthIndicators)

\* the text is empty or holds, in any letter case, a metadata word
SpecMetadata(c) ==
    \/ c = <<>>
    \/ Contains(Lower(c), SkipPydantic)
    \/ Contains(Lower(c), SkipJsonDict)
    \/ Contains(Lower(c), SkipTokenUsage)

ToMarket(c) == market_data' = Append(market_data, c) /\ research_data' = research_data

ToResearch(c) == research_data' = Append(research_data, c) /\ market_data' = market_data

Discarded == research_data' = research_data /\ market_data' = market_data

\* C7 as stated: a TaskResult is classified by the marker rule and no other:
\* a market marker sends it to the market bucket, else a research marker to
\* the research bucket, else it is discarded.
C7_MarkerRuleOnly ==
    [][LoopStep =>
        LET c == crew_output[task_idx]
        IN  IF SpecMarket(c) THEN ToMarket(c)
            ELSE IF SpecResearch(c) THEN ToResearch(c)
            ELSE Discarded]_vars

\* C7 amended: a TaskResult whose text is empty or holds "pydantic",
\* "json_dict" or "token_usage" in any letter case is discarded whatever
\* markers it holds; every other TaskResult is classified by the marker rule.
C7_MarkerRuleAfterSkip ==
    [][LoopStep =>
        LET c == crew_output[task_idx]
        IN  IF SpecMetadata(c) THEN Discarded
            ELSE IF SpecMarket(c) THEN ToMarket(c)
            ELSE IF SpecResearch(c) THEN ToResearch(c)
            ELSE Discarded]_vars

\* C7 witness: of two TaskResults, one with a market marker went to the market
\* bucket and one with a market marker and a metadata word was discarded.
C7_Witness ==
    /\ parse_pc = "done"
    /\ origin = "input"
    /\ Len(crew_output) = 2
    /\ \A i \in 1..2 : SpecMarket(crew_output[i])
    /\ \E i \in 1..2 : SpecMetadata(crew_output[i]) /\ market_data = <<crew_output[3 - i]>>
    /\ research_data = <<>>

\* C8 as stated: a TaskResult with a market marker and a research marker goes
\* to the market bucket only, and no TaskResult goes to both buckets.
C8_BothMarkersToMarket ==
    [][LoopStep =>
        LET c == crew_output[task_idx]
        IN  /\ (SpecMarket(c) /\ SpecResearch(c)) => ToMarket(c)
            /\ ~ (research_data' # research_data /\ market_data' # market_data)]_vars

\* C8 amended: a TaskResult with a market marker and a research marker that is
\* not discarded as metadata goes to the market bucket only, and no TaskResult
\* goes to both buckets.
C8_BothMarkersToMarketUnlessSkipped ==
    [][LoopStep =>
        LET c == crew_output[task_idx]
        IN  /\ (SpecMarket(c) /\ SpecResearch(c) /\ ~ SpecMetadata(c)) => ToMarket(c)
            /\ ~ (research_data' # research_data /\ market_data' # market_data)]_vars

\* C8 witness: a TaskResult with both kinds of marker has been classified, and
\* it is in the market bucket and not in the research bucket.
C8_Witness ==
    /\ parse_pc = "done"
    /\ origin = "input"
    /\ Len(crew_output) = 1
    /\ SpecMarket(crew_output[1]) /\ SpecResearch(crew_output[1])
    /\ market_data = crew_output
    /\ research_data = <<>>
    /\ Contains(parsed.tasks_output[2].raw, FinancialMetrics)

RECURSIVE AllLines(_)
\* the lines of the texts of a bucket, in order
AllLines(text_list) ==
    IF text_list = <<>> THEN <<>>
    ELSE SplitLines(Head(text_list)) \o AllLines(Tail(text_list))

BlankLine(line) == \A i \in 1..Len(line) : line[i] \in WhiteSpace

\* the line, as written, begins with "(", "Task" or "pydantic"
NoiseLine(line) ==
    \/ StartsWith(line, PrefixParen)
    \/ StartsWith(line, PrefixTask)
    \/ StartsWith(line, PrefixPydantic)

KeptAsWritten(line) == ~ BlankLine(line) /\ ~ NoiseLine(line)

KeptTrimmed(line) == ~ BlankLine(line) /\ ~ NoiseLine(Strip(line))

\* C9 as stated: a bucket's text is the lines of its TaskResults, in order and
\* joined by newlines, minus the blank lines and the lines that begin with a
\* noise prefix.
C9_BucketTextIsKeptLines ==
    parse_pc = "done" =>
        /\ parsed.tasks_output[1].raw
              = JoinLines(SelectSeq(AllLines(research_data), KeptAsWritten))
        /\ parsed.tasks_output[2].raw
              = JoinLines(SelectSeq(AllLines(market_data), KeptAsWritten))

TrimAll(lines) == [i \in 1..Len(lines) |-> Strip(lines[i])]

\* C9 amended: a bucket's text is the lines of its TaskResults, each trimmed of
\* leading and trailing whitespace, in order and joined by newlines, minus the
\* lines that are blank after trimming or that begin, after trimming, with a
\* noise prefix.
C9_BucketTextIsTrimmedKeptLines ==
    parse_pc = "done" =>
        /\ parsed.tasks_output[1].raw
              = JoinLines(TrimAll(SelectSeq(AllLines(research_data), KeptTrimmed)))
        /\ parsed.tasks_output[2].raw
              = JoinLines(TrimAll(SelectSeq(AllLines(market_data), KeptTrimmed)))

\* C9 witness: the research bucket holds two TaskResults, and its text has
\* lost a noise line and the whitespace around a kept line.
C9_Witness ==
    /\ parse_pc = "done"
    /\ Len(research_data) = 2
    /\ \E i \in 1..Len(AllLines(research_data)) : NoiseLine(AllLines(research_data)[i])
    /\ \E i \in 1..Len(AllLines(research_data)) :
          LET line == AllLines(research_data)[i]
          IN  KeptTrimmed(line) /\ Strip(line) # line
    /\ parsed.tasks_output[1].raw # <<>>

\* the second normalization has ended
SecondPassDone == parse_pc = "done" /\ origin # "input"

InResearchOnly == research_data = crew_output /\ market_data = <<>>

InMarketOnly == market_data = crew_output /\ research_data = <<>>

\* C10 as stated: a bucket text, normalized again as a single TaskResult, goes
\* to the bucket it came from.
C10_SameBucketAgain ==
    SecondPassDone =>
        /\ origin = "Research" => InResearchOnly
        /\ origin = "Market Analysis" => InMarketOnly

\* C10 amended: a bucket text that still holds a marker of its bucket goes,
\* normalized again as a single TaskResult, to the bucket it came from and to
\* no other; a text whose marker lines were all removed as noise does not.
C10_SameBucketAgainIfMarkerKept ==
    SecondPassDone =>
        /\ (origin = "Research" /\ SpecResearch(crew_output[1])) => InResearchOnly
        /\ (origin = "Market Analysis" /\ SpecMarket(crew_output[1])) => InMarketOnly

\* C10 witness: a market text that kept a market marker and a research marker
\* has been normalized again, and is in the market bucket.
C10_Witness ==
    /\ SecondPassDone
    /\ origin = "Market Analysis"
    /\ SpecMarket(crew_output[1])
    /\ SpecResearch(crew_output[1])
    /\ InMarketOnly



\* the TaskResult at position i holds a content that is no text and is not
\* empty: a number under an attribute or a key
NonText(i) ==
    /\ task_shapes[i].holder \in {"output", "raw", "dict_output", "dict_raw"}
    /\ task_shapes[i].kind = "number"

\* the TaskResult at position i holds no content: None, or a dict without the
\* keys
NoContent(i) ==
    \/ task_shapes[i].holder = "dict_empty"
    \/ /\ task_shapes[i].holder \in {"output", "raw", "dict_output", "dict_raw"}
       /\ task_shapes[i].kind = "none"

\* the texts of the TaskResults that hold a text
HeldTexts == {crew_output[i] : i \in {j \in 1..Len(crew_output) : task_shapes[j].kind = "text"}}

BucketTexts ==
    {research_data[i] : i \in 1..Len(research_data)}
        \cup {market_data[i] : i \in 1..Len(market_data)}

\* C18 as stated: a TaskResult of an unexpected shape, for one whose content
\* is no text, never makes the normalizer fail: it is skipped, and when no
\* other TaskResult fills a bucket the bucket text is empty.
C18_MalformedTolerated ==
    /\ parse_pc # "raised"
    /\ (parse_pc = "done" /\ \A i \in 1..Len(crew_output) : NonText(i) \/ NoContent(i)) =>
          parsed = Report(<<>>, <<>>)

\* C18: a TaskResult without content (None, or a dict without the keys) is
\* skipped and leaves both buckets as they are; a TaskResult whose content is
\* a number makes the normalizer raise when the loop reaches it, and no report
\* is returned.
C18_NonTextRaises ==
    /\ parse_pc = "raised" =>
          /\ task_idx <= Len(crew_output)
          /\ NonText(task_idx)
          /\ parsed = NoReport
    /\ \A i \in 1..Len(crew_output) :
          (i < task_idx \/ parse_pc = "done") => ~ NonText(i)
    /\ BucketTexts \subseteq HeldTexts \ {<<>>}
    /\ (parse_pc = "done" /\ \A i \in 1..Len(crew_output) : NoContent(i)) =>
          parsed = Report(<<>>, <<>>)

\* C18 witness: the normalizer has raised at its second TaskResult, a dict
\* whose 'output' is a number, after it put the first into the market bucket.
C18_Witness ==
    /\ parse_pc = "raised"
    /\ task_idx = 2
    /\ task_shapes[2] = [holder |-> "dict_output", kind |-> "number"]
    /\ market_data = <<LnShare>>

\* the entries of the returned report that the lookup of app.py lines 123-131
\* finds under a bucket name
EntriesNamed(name) ==
    {i \in 1..Len(parsed.tasks_output) : parsed.tasks_output[i].task = name}

\* C24: whenever _parse_results returns, for the empty list and for lists
\* whose every TaskResult is skipped too, the report has exactly two entries,
\* "Research" first and "Market Analysis" second, each with a raw text, and
\* the raw text of a bucket nothing was put into is empty.
C24_TwoEntriesAlways ==
    parse_pc = "done" =>
        /\ Len(parsed.tasks_output) = 2
        /\ \A i \in 1..2 : DOMAIN parsed.tasks_output[i] = {"task", "raw"}
        /\ parsed.tasks_output[1].task = "Research"
        /\ parsed.tasks_output[2].task = "Market Analysis"
        /\ EntriesNamed("Research") = {1}
        /\ EntriesNamed("Market Analysis") = {2}
        /\ research_data = <<>> => parsed.tasks_output[1].raw = <<>>
        /\ market_data = <<>> => parsed.tasks_output[2].raw = <<>>

\* C24 witness: _parse_results has returned for two TaskResults that were both
\* discarded, an internal note and a dict with neither key: both raw texts
\* are empty.
C24_Witness ==
    /\ parse_pc = "done"
    /\ Len(crew_output) = 2
    /\ crew_output[1] = LnInternal
    /\ task_shapes[1] = PlainShape
    /\ task_shapes[2].holder = "dict_empty"
    /\ parsed.tasks_output[1].raw = <<>>
    /\ parsed.tasks_output[2].raw = <<>>
====
